---- MODULE Spec2Model ----
(***************************************************************************)
(* async-ssh2: the would-block-to-future bridge (src/util.rs,              *)
(* into_the_future! / ScopedFuture) and the SFTP operations built on it    *)
(* (src/sftp.rs, Sftp and File).                                           *)
(*                                                                         *)
(* A task is one unit of work of the external executor running one async   *)
(* fn of Sftp or File, or one streaming operation (poll_read, poll_write,  *)
(* poll_flush, poll_shutdown) on a File.  One step of the model is one     *)
(* poll of the innermost ScopedFuture of a task together with the code of  *)
(* the surrounding async fn that runs on the value the await produced, up  *)
(* to the next await; or one poll of a streaming operation.                *)
(* The results of the underlying ssh2 calls and of Aio::set_waker are the  *)
(* environment's choice.                                                   *)
(***************************************************************************)
EXTENDS Integers, Sequences, FiniteSets, TLC

(* ------------------------------ bounds --------------------------------- *)

\* would-block results one bridged future may receive before a terminal one
MaxWB == 2

\* entries one directory listing may read before the model ends the listing
MaxReads == 2

(* ------------------------- program constants --------------------------- *)

\* LIBSSH2_ERROR_EAGAIN, the code io::Error::from maps to ErrorKind::WouldBlock
EAGAIN == -37

\* the code Sftp::readdir takes for "no more entries" (LIBSSH2_ERROR_FILE)
NoMoreEntries == -16

\* a terminal protocol failure (LIBSSH2_ERROR_SFTP_PROTOCOL)
SftpProtocol == -31

\* the mode open and create pass to open_mode, 0o644
Mode644 == 420

(* ------------------------------ domains -------------------------------- *)

Tasks == {1, 2}

\* the error codes the underlying calls fail with
ErrCodes == {EAGAIN, NoMoreEntries, SftpProtocol}

\* file names, as sequences of characters: ".", "..", "./", "a"
Names == { <<".">>, <<".", ".">>, <<".", "/">>, <<"a">> }

\* what File::readdir's underlying call yields, (PathBuf, FileStat)
Entries == { <<n, "s1">> : n \in Names }

\* the directory path handed to Sftp::readdir: "d"
DirNames == { <<"d">> }

\* the values of a single bridged call (a FileStat, a PathBuf, unit)
Values == { <<"v">>, <<"w">> }

\* the protocol handle of an opened directory
Handles == { <<"h">> }

\* the byte counts of a streaming read or write; 0 is the end of the stream
Counts == { <<0>>, <<1>> }

\* the (flags, mode, open_type) a caller hands to open_mode directly
OpenModeCalls ==
  { [flags |-> {"READ"}, mode |-> Mode644, type |-> "File"],
    [flags |-> {"WRITE", "TRUNCATE"}, mode |-> Mode644, type |-> "File"],
    [flags |-> {"READ"}, mode |-> 0, type |-> "Dir"],
    [flags |-> {"READ", "WRITE"}, mode |-> 0, type |-> "File"] }

NoArgs == [flags |-> {}, mode |-> 0, type |-> "none"]

\* the buffers a caller hands to poll_write
Bufs == { <<"x">>, <<"x", "y">> }

NoVal == << >>

(* --------------------------- result values ----------------------------- *)

\* Result<R, ssh2::Error> of the retried closure
OpOk(v) == [ok |-> TRUE, val |-> v, code |-> 0]
OpErr(c) == [ok |-> FALSE, val |-> NoVal, code |-> c]

\* Poll<Result<R, Error>>; Error is SSH2(ssh2::Error) or the notifier's error
Pending == [st |-> "Pending", val |-> NoVal, tag |-> "none", code |-> 0]
ReadyOk(v) == [st |-> "Ok", val |-> v, tag |-> "none", code |-> 0]
ReadyErrSSH2(c) == [st |-> "Err", val |-> NoVal, tag |-> "SSH2", code |-> c]
ReadyErrIo == [st |-> "Err", val |-> NoVal, tag |-> "Io", code |-> 0]

\* Poll::Ready(Err(e)) of a streaming poll, e the io::Error of the call
ReadyErrIoOf(c) == [st |-> "Err", val |-> NoVal, tag |-> "Io", code |-> c]

NoResult == [st |-> "None", val |-> NoVal, tag |-> "none", code |-> 0]

(* ------------------------- std::path::Path ----------------------------- *)

\* the text of p cut at every "/" (empty pieces included)
RECURSIVE Split(_)
Split(p) ==
  IF \A i \in 1..Len(p) : p[i] # "/"
  THEN << p >>
  ELSE LET i == CHOOSE j \in 1..Len(p) :
                  p[j] = "/" /\ \A k \in 1..(j - 1) : p[k] # "/"
       IN  << SubSeq(p, 1, i - 1) >> \o Split(SubSeq(p, i + 1, Len(p)))

IsAbsolute(p) == Len(p) > 0 /\ p[1] = "/"

\* Path::components on Unix: the root, a leading ".", then the pieces that
\* are neither empty nor "."
Components(p) ==
  LET pieces == Split(p)
      normal == SelectSeq(pieces, LAMBDA x : x # << >> /\ x # <<".">>)
      root   == IF IsAbsolute(p) THEN << <<"/">> >> ELSE << >>
      curdir == IF ~IsAbsolute(p) /\ pieces[1] = <<".">>
                THEN << <<".">> >> ELSE << >>
  IN  root \o curdir \o normal

\* PartialEq for Path compares the components
PathEq(p, q) == Components(p) = Components(q)

\* Path::join: PathBuf::push of f on a copy of dir
Join(dir, f) ==
  IF IsAbsolute(f) THEN f
  ELSE IF Len(dir) > 0 /\ dir[Len(dir)] # "/" THEN dir \o <<"/">> \o f
  ELSE dir \o f

(* ---------------------- ScopedFuture (util.rs) ------------------------- *)

\* io::Error::from(ssh2::Error::from_errno(code)).kind(), for the codes of
\* ErrCodes
IoErrorKind(code) == IF code = EAGAIN THEN "WouldBlock" ELSE "Other"

IsWouldBlock(code) == IoErrorKind(code) = "WouldBlock"

\* ScopedFuture::poll that leaves a successful result unreported
ScopedFuturePoll_PendingOnOk(r, a, w) ==
  IF ~r.ok /\ IsWouldBlock(r.code)
  THEN IF a = "Some"
       THEN IF w THEN [out |-> Pending, waker |-> TRUE, reg |-> TRUE]
                 ELSE [out |-> ReadyErrIo, waker |-> TRUE, reg |-> FALSE]
       ELSE [out |-> Pending, waker |-> FALSE, reg |-> FALSE]
  ELSE IF ~r.ok
  THEN [out |-> ReadyErrSSH2(r.code), waker |-> FALSE, reg |-> FALSE]
  ELSE [out |-> Pending, waker |-> FALSE, reg |-> FALSE]

\* ScopedFuture::poll whose first arm has lost its would-block guard: every
\* failure registers and suspends
ScopedFuturePoll_RetryAnyError(r, a, w) ==
  IF ~r.ok
  THEN IF a = "Some"
       THEN IF w THEN [out |-> Pending, waker |-> TRUE, reg |-> TRUE]
                 ELSE [out |-> ReadyErrIo, waker |-> TRUE, reg |-> FALSE]
       ELSE [out |-> Pending, waker |-> FALSE, reg |-> FALSE]
  ELSE [out |-> ReadyOk(r.val), waker |-> FALSE, reg |-> FALSE]

\* ScopedFuture::poll without its would-block arm: every failure is final
ScopedFuturePoll_NoWouldBlockArm(r, a, w) ==
  IF ~r.ok
  THEN [out |-> ReadyErrSSH2(r.code), waker |-> FALSE, reg |-> FALSE]
  ELSE [out |-> ReadyOk(r.val), waker |-> FALSE, reg |-> FALSE]

\* ScopedFuture::poll that drops the error of set_waker (no `?`)
ScopedFuturePoll_IgnoreWakerError(r, a, w) ==
  IF ~r.ok /\ IsWouldBlock(r.code)
  THEN IF a = "Some"
       THEN [out |-> Pending, waker |-> TRUE, reg |-> w]
       ELSE [out |-> Pending, waker |-> FALSE, reg |-> FALSE]
  ELSE IF ~r.ok
  THEN [out |-> ReadyErrSSH2(r.code), waker |-> FALSE, reg |-> FALSE]
  ELSE [out |-> ReadyOk(r.val), waker |-> FALSE, reg |-> FALSE]

\* ScopedFuture::poll that suspends on would-block without calling set_waker
ScopedFuturePoll_NoRegistration(r, a, w) ==
  IF ~r.ok /\ IsWouldBlock(r.code)
  THEN [out |-> Pending, waker |-> FALSE, reg |-> FALSE]
  ELSE IF ~r.ok
  THEN [out |-> ReadyErrSSH2(r.code), waker |-> FALSE, reg |-> FALSE]
  ELSE [out |-> ReadyOk(r.val), waker |-> FALSE, reg |-> FALSE]

\* ScopedFuture::poll with the end-of-listing code taken for a success
\* inside the bridge
ScopedFuturePoll_NoMoreEntriesIsOk(r, a, w) ==
  IF ~r.ok /\ IsWouldBlock(r.code)
  THEN IF a = "Some"
       THEN IF w THEN [out |-> Pending, waker |-> TRUE, reg |-> TRUE]
                 ELSE [out |-> ReadyErrIo, waker |-> TRUE, reg |-> FALSE]
       ELSE [out |-> Pending, waker |-> FALSE, reg |-> FALSE]
  ELSE IF ~r.ok /\ r.code # NoMoreEntries
  THEN [out |-> ReadyErrSSH2(r.code), waker |-> FALSE, reg |-> FALSE]
  ELSE [out |-> ReadyOk(r.val), waker |-> FALSE, reg |-> FALSE]

\* One poll of a ScopedFuture whose closure returned r, with the notifier
\* handle a ("Some" or "None") and set_waker succeeding iff w.
\*   out   : the Poll value returned
\*   waker : set_waker was called
\*   reg   : the task's waker is now registered with the notifier
ScopedFuturePoll(r, a, w) ==
  IF ~r.ok /\ IsWouldBlock(r.code)
  THEN IF a = "Some"
       THEN IF w THEN [out |-> Pending, waker |-> TRUE, reg |-> TRUE]
                 ELSE [out |-> ReadyErrIo, waker |-> TRUE, reg |-> FALSE]
       ELSE [out |-> Pending, waker |-> FALSE, reg |-> FALSE]
  ELSE IF ~r.ok
  THEN [out |-> ReadyErrSSH2(r.code), waker |-> FALSE, reg |-> FALSE]
  ELSE [out |-> ReadyOk(r.val), waker |-> FALSE, reg |-> FALSE]

(* ------------------- AsyncRead / AsyncWrite for File ------------------- *)

\* poll_read taking a would-block for the end of the stream
FilePollRead_EofOnWouldBlock(r, a, w) ==
  IF ~r.ok /\ IoErrorKind(r.code) = "WouldBlock"
  THEN [out |-> ReadyOk(<<0>>), waker |-> FALSE, reg |-> FALSE]
  ELSE IF ~r.ok
  THEN [out |-> ReadyErrIoOf(r.code), waker |-> FALSE, reg |-> FALSE]
  ELSE [out |-> ReadyOk(r.val), waker |-> FALSE, reg |-> FALSE]

\* File::poll_read on the result r of self.inner.read(buf)
FilePollRead(r, a, w) ==
  IF ~r.ok /\ IoErrorKind(r.code) = "WouldBlock"
  THEN IF a = "Some"
       THEN IF w THEN [out |-> Pending, waker |-> TRUE, reg |-> TRUE]
                 ELSE [out |-> ReadyErrIo, waker |-> TRUE, reg |-> FALSE]
       ELSE [out |-> Pending, waker |-> FALSE, reg |-> FALSE]
  ELSE IF ~r.ok
  THEN [out |-> ReadyErrIoOf(r.code), waker |-> FALSE, reg |-> FALSE]
  ELSE [out |-> ReadyOk(r.val), waker |-> FALSE, reg |-> FALSE]

\* poll_write that suspends on every failure of the write
FilePollWrite_PendingOnError(r, a, w) ==
  IF ~r.ok
  THEN IF a = "Some"
       THEN IF w THEN [out |-> Pending, waker |-> TRUE, reg |-> TRUE]
                 ELSE [out |-> ReadyErrIo, waker |-> TRUE, reg |-> FALSE]
       ELSE [out |-> Pending, waker |-> FALSE, reg |-> FALSE]
  ELSE [out |-> ReadyOk(r.val), waker |-> FALSE, reg |-> FALSE]

\* File::poll_write on the result r of self.inner.write(buf)
FilePollWrite(r, a, w) ==
  IF ~r.ok /\ IoErrorKind(r.code) = "WouldBlock"
  THEN IF a = "Some"
       THEN IF w THEN [out |-> Pending, waker |-> TRUE, reg |-> TRUE]
                 ELSE [out |-> ReadyErrIo, waker |-> TRUE, reg |-> FALSE]
       ELSE [out |-> Pending, waker |-> FALSE, reg |-> FALSE]
  ELSE IF ~r.ok
  THEN [out |-> ReadyErrIoOf(r.code), waker |-> FALSE, reg |-> FALSE]
  ELSE [out |-> ReadyOk(r.val), waker |-> FALSE, reg |-> FALSE]

\* poll_flush that registers a wakeup on every poll, a completing one too
FilePollFlush_RegistersOnReady(r, a, w) ==
  IF ~r.ok /\ IoErrorKind(r.code) = "WouldBlock"
  THEN IF a = "Some"
       THEN IF w THEN [out |-> Pending, waker |-> TRUE, reg |-> TRUE]
                 ELSE [out |-> ReadyErrIo, waker |-> TRUE, reg |-> FALSE]
       ELSE [out |-> Pending, waker |-> FALSE, reg |-> FALSE]
  ELSE IF ~r.ok
  THEN [out |-> ReadyErrIoOf(r.code), waker |-> a = "Some", reg |-> a = "Some"]
  ELSE [out |-> ReadyOk(r.val), waker |-> a = "Some", reg |-> a = "Some"]

\* File::poll_flush on the result r of self.inner.flush()
FilePollFlush(r, a, w) ==
  IF ~r.ok /\ IoErrorKind(r.code) = "WouldBlock"
  THEN IF a = "Some"
       THEN IF w THEN [out |-> Pending, waker |-> TRUE, reg |-> TRUE]
                 ELSE [out |-> ReadyErrIo, waker |-> TRUE, reg |-> FALSE]
       ELSE [out |-> Pending, waker |-> FALSE, reg |-> FALSE]
  ELSE IF ~r.ok
  THEN [out |-> ReadyErrIoOf(r.code), waker |-> FALSE, reg |-> FALSE]
  ELSE [out |-> ReadyOk(r.val), waker |-> FALSE, reg |-> FALSE]

\* poll_shutdown flushing the handle as poll_flush does, the flush blocked
FilePollShutdown_FlushesFirst(a, w) ==
  IF a = "Some"
  THEN [out |-> Pending, waker |-> TRUE, reg |-> TRUE, called |-> TRUE]
  ELSE [out |-> Pending, waker |-> FALSE, reg |-> FALSE, called |-> TRUE]

\* poll_write handing the write a buffer that is not the caller's
WriteArg_Doubled(b) == b \o b

\* the buffer poll_write hands to self.inner.write, b the caller's
WriteArg(b) == b

\* what self.inner.write(b) can return when it succeeds: the number of
\* bytes of b it accepted
Accepted(b) == { <<n>> : n \in 0..Len(b) }

\* File::poll_shutdown: no call of self.inner, no use of self.aio
\*   called : a protocol call was made
FilePollShutdown(a, w) ==
  [out |-> ReadyOk(NoVal), waker |-> FALSE, reg |-> FALSE, called |-> FALSE]

(* --------------------------- Sftp open forms --------------------------- *)

\* create asking for read access as well
OpenArgs_CreateReadWrite(o, args) ==
  IF o = "open" THEN [flags |-> {"READ"}, mode |-> Mode644, type |-> "File"]
  ELSE IF o = "create"
  THEN [flags |-> {"READ", "WRITE", "TRUNCATE"}, mode |-> Mode644,
        type |-> "File"]
  ELSE IF o = "opendir" THEN [flags |-> {"READ"}, mode |-> 0, type |-> "Dir"]
  ELSE IF o = "open_mode" THEN args
  ELSE NoArgs

\* the (flags, mode, open_type) the form o hands to self.inner.open_mode;
\* args is what the caller of open_mode itself gave
OpenArgs(o, args) ==
  IF o = "open" THEN [flags |-> {"READ"}, mode |-> Mode644, type |-> "File"]
  ELSE IF o = "create"
  THEN [flags |-> {"WRITE", "TRUNCATE"}, mode |-> Mode644, type |-> "File"]
  ELSE IF o = "opendir" THEN [flags |-> {"READ"}, mode |-> 0, type |-> "Dir"]
  ELSE IF o = "open_mode" THEN args
  ELSE NoArgs

(* ------------------------ dropping a ScopedFuture ---------------------- *)

\* a drop that takes every registration out of the shared notifier
DropEffect_ClearsAll(reg, t) == {}

\* what dropping t's future leaves of the notifier's registrations:
\* ScopedFuture has no Drop and holds only `cb` and an Arc of the notifier
DropEffect(reg, t) == reg

(* ------------------------ Sftp::readdir loop --------------------------- *)

\* the test of sftp.rs:74 without its second comparison
IsDotOrDotDot_OnlyDot(filename) == PathEq(filename, <<".">>)

\* the test of sftp.rs:74
IsDotOrDotDot(filename) ==
  PathEq(filename, <<".">>) \/ PathEq(filename, <<".", ".">>)

\* the loop without the arm of sftp.rs:80: the end of the listing is an error
ReaddirStep_NoMoreEntriesIsError(ret, dirname, res) ==
  IF res.st = "Ok"
  THEN IF IsDotOrDotDot(res.val[1])
       THEN [ctl |-> "loop", ret |-> ret, out |-> NoResult]
       ELSE [ctl |-> "loop",
             ret |-> Append(ret, << Join(dirname, res.val[1]), res.val[2] >>),
             out |-> NoResult]
  ELSE [ctl |-> "return", ret |-> ret, out |-> res]

\* the loop whose arm of sftp.rs:80 has lost its guard: every error ends the
\* listing with what was accumulated
ReaddirStep_BreakOnAnyError(ret, dirname, res) ==
  IF res.st = "Ok"
  THEN IF IsDotOrDotDot(res.val[1])
       THEN [ctl |-> "loop", ret |-> ret, out |-> NoResult]
       ELSE [ctl |-> "loop",
             ret |-> Append(ret, << Join(dirname, res.val[1]), res.val[2] >>),
             out |-> NoResult]
  ELSE [ctl |-> "return", ret |-> ret, out |-> ReadyOk(ret)]

\* One turn of the loop of Sftp::readdir on res, the value dir.readdir().await
\* produced.  ctl: "loop" (next iteration), "return" (the fn returns out).
\* the loop body keeping only the entry it has just read
ReaddirStep_KeepsLastOnly(ret, dirname, res) ==
  IF res.st = "Ok"
  THEN IF IsDotOrDotDot(res.val[1])
       THEN [ctl |-> "loop", ret |-> ret, out |-> NoResult]
       ELSE [ctl |-> "loop",
             ret |-> << << Join(dirname, res.val[1]), res.val[2] >> >>,
             out |-> NoResult]
  ELSE IF res.tag = "SSH2" /\ res.code = NoMoreEntries
  THEN [ctl |-> "return", ret |-> ret, out |-> ReadyOk(ret)]
  ELSE [ctl |-> "return", ret |-> ret, out |-> res]

ReaddirStep(ret, dirname, res) ==
  IF res.st = "Ok"
  THEN IF IsDotOrDotDot(res.val[1])
       THEN [ctl |-> "loop", ret |-> ret, out |-> NoResult]
       ELSE [ctl |-> "loop",
             ret |-> Append(ret, << Join(dirname, res.val[1]), res.val[2] >>),
             out |-> NoResult]
  ELSE IF res.tag = "SSH2" /\ res.code = NoMoreEntries
  THEN [ctl |-> "return", ret |-> ret, out |-> ReadyOk(ret)]
  ELSE [ctl |-> "return", ret |-> ret, out |-> res]

(* ------------------------------- state --------------------------------- *)

VARIABLES
  aio,        \* Sftp.aio, the session's shared notifier handle: "Some" / "None"
  op,         \* op[t]: the async fn task t runs
  pc,         \* pc[t]: the await the fn stands at
  runnable,   \* runnable[t]: the executor is about to poll t
  registered, \* the tasks whose waker the notifier holds
  opHist,     \* opHist[t]: the closure's results in t's current future
  pollHist,   \* pollHist[t]: the values poll returned in t's current future
  wakerCalls, \* wakerCalls[t]: calls of set_waker in t's current future
  wakerRes,   \* wakerRes[t]: set_waker in t's latest poll: "none"/"ok"/"failed"
  lastAt,     \* lastAt[t]: the await t's latest poll was made at
  dirname,    \* dirname[t]: the argument of Sftp::readdir
  dir,        \* dir[t]: the local `dir` of Sftp::readdir
  file,       \* file[t]: the File the caller got from Sftp::opendir
  openArgs,   \* openArgs[t]: (flags, mode, open_type) given to inner.open_mode
  buf,        \* buf[t]: the buffer the caller gave to poll_write
  ret,        \* ret[t]: the local `ret` of Sftp::readdir
  readLog,    \* readLog[t]: the entries dir.readdir() produced in this listing
  result      \* result[t]: what the async fn returned

vars == << aio, op, pc, runnable, registered, opHist, pollHist, wakerCalls,
           wakerRes, lastAt, dirname, dir, file, openArgs, buf, ret, readLog,
           result >>

\* struct File { inner, aio }
NoFile == [open |-> FALSE, inner |-> NoVal, aio |-> "None"]

\* a File made without the notifier of its Sftp
FileNew_NoAio(inner, a) == [open |-> TRUE, inner |-> inner, aio |-> "None"]

\* File::new(file, aio)
FileNew(inner, a) == [open |-> TRUE, inner |-> inner, aio |-> a]

\* the async fns a task may call
Ops(t) == IF t = 1 THEN {"stat", "opendir", "file_readdir", "readdir"}
                           \cup {"open", "create", "open_mode"}
                           \cup {"read", "write", "flush", "shutdown"}
          ELSE {"stat"}

\* the fns of File: they need a File the task holds
FileOps == {"file_readdir", "read", "write", "flush", "shutdown"}

\* the awaits a task can stand at
Active == {"call", "open", "read"}

\* the tasks whose caller may drop the future before it completes
Droppable == {2}

Init ==
  /\ aio \in {"Some", "None"}
  /\ op = [t \in Tasks |-> "none"]
  /\ pc = [t \in Tasks |-> "idle"]
  /\ runnable = [t \in Tasks |-> FALSE]
  /\ registered = {}
  /\ opHist = [t \in Tasks |-> << >>]
  /\ pollHist = [t \in Tasks |-> << >>]
  /\ wakerCalls = [t \in Tasks |-> 0]
  /\ wakerRes = [t \in Tasks |-> "none"]
  /\ lastAt = [t \in Tasks |-> "none"]
  /\ dirname = [t \in Tasks |-> NoVal]
  /\ dir = [t \in Tasks |-> NoFile]
  /\ file = [t \in Tasks |-> NoFile]
  /\ openArgs = [t \in Tasks |-> NoArgs]
  /\ buf = [t \in Tasks |-> NoVal]
  /\ ret = [t \in Tasks |-> << >>]
  /\ readLog = [t \in Tasks |-> << >>]
  /\ result = [t \in Tasks |-> NoResult]

(* ------------------------- the current future -------------------------- *)

\* t's latest future has returned Ready: the next poll is of a new future
Completed(t) ==
  Len(pollHist[t]) > 0 /\ pollHist[t][Len(pollHist[t])].st # "Pending"

CurOpHist(t) == IF Completed(t) THEN << >> ELSE opHist[t]
CurPollHist(t) == IF Completed(t) THEN << >> ELSE pollHist[t]
CurWakerCalls(t) == IF Completed(t) THEN 0 ELSE wakerCalls[t]

\* what the underlying call may return to the closure: a value of okVals, a
\* failure code, or would-block while the future has had fewer than MaxWB
OpResults(t, okVals) ==
  { OpOk(v) : v \in okVals }
    \cup { OpErr(c) : c \in { x \in ErrCodes :
                        IsWouldBlock(x) => Len(CurOpHist(t)) < MaxWB } }

\* the outcomes of Aio::set_waker that matter to a poll on r
WakerOutcomes(r, a) ==
  IF ~r.ok /\ IsWouldBlock(r.code) /\ a = "Some" THEN {TRUE, FALSE} ELSE {TRUE}

\* the bookkeeping of one poll p of t's current future on the result r, with
\* set_waker succeeding iff w
Polled(t, r, w, p) ==
  /\ lastAt' = [lastAt EXCEPT ![t] = pc[t]]
  /\ wakerRes' = [wakerRes EXCEPT ![t] =
        IF ~p.waker THEN "none" ELSE IF w THEN "ok" ELSE "failed"]
  /\ opHist' = [opHist EXCEPT ![t] = Append(CurOpHist(t), r)]
  /\ pollHist' = [pollHist EXCEPT ![t] = Append(CurPollHist(t), p.out)]
  /\ wakerCalls' = [wakerCalls EXCEPT
                      ![t] = CurWakerCalls(t) + (IF p.waker THEN 1 ELSE 0)]
  /\ registered' = IF p.reg THEN registered \cup {t} ELSE registered

(* ------------------------------ actions -------------------------------- *)

\* the caller calls one of the fns `ops` of Sftp (or of its File) and the
\* executor polls the new task a first time; a task makes one call, or opens
\* a File and then makes calls on the File it got: File::readdir, reads,
\* writes of a buffer b, flushes and shutdowns
StartOf(t, ops) ==
  \E o \in ops, d \in DirNames, args \in OpenModeCalls, b \in Bufs :
    /\ o # "write" => b = CHOOSE x \in Bufs : TRUE
    /\ buf' = [buf EXCEPT ![t] = IF o = "write" THEN b ELSE NoVal]
    /\ pc[t] = "idle" \/ (pc[t] = "done" /\ o \in FileOps)
    /\ o \in FileOps => file[t].open
    /\ o # "open_mode" => args = CHOOSE x \in OpenModeCalls : TRUE
    /\ openArgs' = [openArgs EXCEPT ![t] =
         OpenArgs(IF o = "readdir" THEN "opendir" ELSE o, args)]
    /\ o # "readdir" => d = CHOOSE x \in DirNames : TRUE
    /\ op' = [op EXCEPT ![t] = o]
    /\ pc' = [pc EXCEPT ![t] = IF o = "readdir" THEN "open" ELSE "call"]
    /\ runnable' = [runnable EXCEPT ![t] = TRUE]
    /\ opHist' = [opHist EXCEPT ![t] = << >>]
    /\ pollHist' = [pollHist EXCEPT ![t] = << >>]
    /\ wakerCalls' = [wakerCalls EXCEPT ![t] = 0]
    /\ wakerRes' = [wakerRes EXCEPT ![t] = "none"]
    /\ lastAt' = [lastAt EXCEPT ![t] = "none"]
    /\ dirname' = [dirname EXCEPT ![t] = IF o = "readdir" THEN d ELSE NoVal]
    /\ ret' = [ret EXCEPT ![t] = << >>]
    /\ readLog' = [readLog EXCEPT ![t] = << >>]
    /\ result' = [result EXCEPT ![t] = NoResult]
    /\ UNCHANGED << aio, registered, dir, file >>

\* Sftp::stat (and mkdir, rmdir, lstat, ...: one bridged call on self.aio)
PollStat(t) ==
  /\ pc[t] = "call" /\ op[t] = "stat" /\ runnable[t]
  /\ \E r \in OpResults(t, Values) : \E w \in WakerOutcomes(r, aio) :
       LET p == ScopedFuturePoll(r, aio, w) IN
         /\ Polled(t, r, w, p)
         /\ runnable' = [runnable EXCEPT ![t] = FALSE]
         /\ IF p.out.st = "Pending"
            THEN UNCHANGED << pc, result >>
            ELSE /\ pc' = [pc EXCEPT ![t] = "done"]
                 /\ result' = [result EXCEPT ![t] = p.out]
  /\ UNCHANGED << aio, op, openArgs, buf, dirname, dir, file, ret, readLog >>

\* Sftp::opendir = open_mode(dirname, READ, 0, Dir): one bridged call, then
\* File::new(file, self.aio.clone())
PollOpendir(t) ==
  /\ pc[t] = "call" /\ op[t] = "opendir" /\ runnable[t]
  /\ \E r \in OpResults(t, Handles) : \E w \in WakerOutcomes(r, aio) :
       LET p == ScopedFuturePoll(r, aio, w) IN
         /\ Polled(t, r, w, p)
         /\ runnable' = [runnable EXCEPT ![t] = FALSE]
         /\ IF p.out.st = "Pending"
            THEN UNCHANGED << pc, result, file >>
            ELSE /\ pc' = [pc EXCEPT ![t] = "done"]
                 /\ result' = [result EXCEPT ![t] = p.out]
                 /\ file' = [file EXCEPT ![t] =
                      IF p.out.st = "Ok" THEN FileNew(p.out.val, aio) ELSE @]
  /\ UNCHANGED << aio, op, openArgs, buf, dirname, dir, ret, readLog >>

\* File::readdir on the caller's handle: one bridged call on the File's aio
PollFileReaddir(t) ==
  /\ pc[t] = "call" /\ op[t] = "file_readdir" /\ runnable[t]
  /\ \E r \in OpResults(t, Entries) : \E w \in WakerOutcomes(r, file[t].aio) :
       LET p == ScopedFuturePoll(r, file[t].aio, w) IN
         /\ Polled(t, r, w, p)
         /\ runnable' = [runnable EXCEPT ![t] = FALSE]
         /\ IF p.out.st = "Pending"
            THEN UNCHANGED << pc, result >>
            ELSE /\ pc' = [pc EXCEPT ![t] = "done"]
                 /\ result' = [result EXCEPT ![t] = p.out]
  /\ UNCHANGED << aio, op, openArgs, buf, dirname, dir, file, ret, readLog >>

\* Sftp::readdir at `self.opendir(dirname).await?`
PollReaddirOpen(t) ==
  /\ pc[t] = "open" /\ runnable[t]
  /\ \E r \in OpResults(t, Handles) : \E w \in WakerOutcomes(r, aio) :
       LET p == ScopedFuturePoll(r, aio, w) IN
         /\ Polled(t, r, w, p)
         /\ IF p.out.st = "Pending"
            THEN /\ runnable' = [runnable EXCEPT ![t] = FALSE]
                 /\ UNCHANGED << pc, result, dir, ret >>
            ELSE IF p.out.st = "Err"
            THEN /\ runnable' = [runnable EXCEPT ![t] = FALSE]
                 /\ pc' = [pc EXCEPT ![t] = "done"]
                 /\ result' = [result EXCEPT ![t] = p.out]
                 /\ UNCHANGED << dir, ret >>
            ELSE /\ dir' = [dir EXCEPT ![t] = FileNew(p.out.val, aio)]
                 /\ ret' = [ret EXCEPT ![t] = << >>]
                 /\ pc' = [pc EXCEPT ![t] = "read"]
                 /\ UNCHANGED << runnable, result >>
  /\ UNCHANGED << aio, op, openArgs, buf, dirname, file, readLog >>

\* Sftp::readdir at `dir.readdir().await` and the loop body on its value
PollReaddirRead(t) ==
  /\ pc[t] = "read" /\ runnable[t]
  /\ \E r \in OpResults(t, IF Len(readLog[t]) < MaxReads THEN Entries ELSE {}) :
     \E w \in WakerOutcomes(r, dir[t].aio) :
       LET p == ScopedFuturePoll(r, dir[t].aio, w) IN
         /\ Polled(t, r, w, p)
         /\ IF p.out.st = "Pending"
            THEN /\ runnable' = [runnable EXCEPT ![t] = FALSE]
                 /\ UNCHANGED << pc, result, dir, ret, readLog >>
            ELSE LET s == ReaddirStep(ret[t], dirname[t], p.out) IN
                 /\ ret' = [ret EXCEPT ![t] = s.ret]
                 /\ readLog' = [readLog EXCEPT ![t] =
                      IF p.out.st = "Ok" THEN Append(@, p.out.val) ELSE @]
                 /\ IF s.ctl = "loop"
                    THEN UNCHANGED << pc, result, dir, runnable >>
                    ELSE /\ pc' = [pc EXCEPT ![t] = "done"]
                         /\ result' = [result EXCEPT ![t] = s.out]
                         /\ dir' = [dir EXCEPT ![t] = NoFile]
                         /\ runnable' = [runnable EXCEPT ![t] = FALSE]
  /\ UNCHANGED << aio, op, openArgs, buf, dirname, file >>

\* a call of any of the fns of Ops
Start(t) == StartOf(t, Ops(t))

\* Sftp::open, Sftp::create and Sftp::open_mode: one bridged call of
\* self.inner.open_mode with openArgs[t], then File::new(file, self.aio.clone())
PollOpenMode(t) ==
  /\ pc[t] = "call" /\ op[t] \in {"open", "create", "open_mode"} /\ runnable[t]
  /\ \E r \in OpResults(t, Handles) : \E w \in WakerOutcomes(r, aio) :
       LET p == ScopedFuturePoll(r, aio, w) IN
         /\ Polled(t, r, w, p)
         /\ runnable' = [runnable EXCEPT ![t] = FALSE]
         /\ IF p.out.st = "Pending"
            THEN UNCHANGED << pc, result, file >>
            ELSE /\ pc' = [pc EXCEPT ![t] = "done"]
                 /\ result' = [result EXCEPT ![t] = p.out]
                 /\ file' = [file EXCEPT ![t] =
                      IF p.out.st = "Ok" THEN FileNew(p.out.val, aio) ELSE @]
  /\ UNCHANGED << aio, op, openArgs, buf, dirname, dir, ret, readLog >>

\* the bookkeeping common to the streaming polls of t's File
Streamed(t, r, w, p) ==
  /\ Polled(t, r, w, p)
  /\ runnable' = [runnable EXCEPT ![t] = FALSE]
  /\ IF p.out.st = "Pending"
     THEN UNCHANGED << pc, result >>
     ELSE /\ pc' = [pc EXCEPT ![t] = "done"]
          /\ result' = [result EXCEPT ![t] = p.out]
  /\ UNCHANGED << aio, op, openArgs, buf, dirname, dir, file, ret, readLog >>

\* AsyncRead::poll_read of the caller's File
PollRead(t) ==
  /\ pc[t] = "call" /\ op[t] = "read" /\ runnable[t]
  /\ \E r \in OpResults(t, Counts) : \E w \in WakerOutcomes(r, file[t].aio) :
       Streamed(t, r, w, FilePollRead(r, file[t].aio, w))

\* AsyncWrite::poll_write of the caller's File
PollWrite(t) ==
  /\ pc[t] = "call" /\ op[t] = "write" /\ runnable[t]
  /\ \E r \in OpResults(t, Accepted(WriteArg(buf[t]))) :
       \E w \in WakerOutcomes(r, file[t].aio) :
         Streamed(t, r, w, FilePollWrite(r, file[t].aio, w))

\* AsyncWrite::poll_flush of the caller's File
PollFlush(t) ==
  /\ pc[t] = "call" /\ op[t] = "flush" /\ runnable[t]
  /\ \E r \in OpResults(t, {NoVal}) : \E w \in WakerOutcomes(r, file[t].aio) :
       Streamed(t, r, w, FilePollFlush(r, file[t].aio, w))

\* AsyncWrite::poll_shutdown of the caller's File
PollShutdown(t) ==
  /\ pc[t] = "call" /\ op[t] = "shutdown" /\ runnable[t]
  /\ LET p == FilePollShutdown(file[t].aio, TRUE) IN
       /\ lastAt' = [lastAt EXCEPT ![t] = pc[t]]
       /\ wakerRes' = [wakerRes EXCEPT ![t] = IF p.waker THEN "ok" ELSE "none"]
       /\ opHist' = [opHist EXCEPT ![t] =
            IF p.called THEN Append(@, OpOk(NoVal)) ELSE @]
       /\ pollHist' = [pollHist EXCEPT ![t] = Append(CurPollHist(t), p.out)]
       /\ wakerCalls' = [wakerCalls EXCEPT
                           ![t] = CurWakerCalls(t) + (IF p.waker THEN 1 ELSE 0)]
       /\ registered' = IF p.reg THEN registered \cup {t} ELSE registered
       /\ runnable' = [runnable EXCEPT ![t] = FALSE]
       /\ IF p.out.st = "Pending"
          THEN UNCHANGED << pc, result >>
          ELSE /\ pc' = [pc EXCEPT ![t] = "done"]
               /\ result' = [result EXCEPT ![t] = p.out]
  /\ UNCHANGED << aio, op, openArgs, buf, dirname, dir, file, ret, readLog >>

\* the caller drops t's future while it is suspended
Drop(t) ==
  /\ t \in Droppable
  /\ pc[t] \in Active /\ ~runnable[t]
  /\ Len(CurPollHist(t)) > 0
  /\ pc' = [pc EXCEPT ![t] = "dropped"]
  /\ registered' = DropEffect(registered, t)
  /\ UNCHANGED << aio, op, runnable, opHist, pollHist, wakerCalls, wakerRes,
                  lastAt, dirname, dir, file, openArgs, buf, ret, readLog, result >>

\* the transport becomes ready: the notifier wakes every registered task
Notify ==
  /\ registered # {}
  /\ runnable' = [t \in Tasks |->
        runnable[t] \/ (t \in registered /\ pc[t] \in Active)]
  /\ registered' = {}
  /\ UNCHANGED << aio, op, pc, opHist, pollHist, wakerCalls, wakerRes, lastAt,
                  dirname, dir, file, openArgs, buf, ret, readLog, result >>

\* the executor polls a suspended task although nothing woke it
SpuriousWake(t) ==
  /\ pc[t] \in Active /\ ~runnable[t]
  /\ runnable' = [runnable EXCEPT ![t] = TRUE]
  /\ UNCHANGED << aio, op, pc, registered, opHist, pollHist, wakerCalls,
                  wakerRes, lastAt, dirname, dir, file, openArgs, buf, ret, readLog,
                  result >>

Poll(t) ==
  \/ PollStat(t)
  \/ PollOpendir(t)
  \/ PollFileReaddir(t)
  \/ PollReaddirOpen(t)
  \/ PollReaddirRead(t)
  \/ PollOpenMode(t)
  \/ PollRead(t)
  \/ PollWrite(t)
  \/ PollFlush(t)
  \/ PollShutdown(t)

Next ==
  \/ \E t \in Tasks : Start(t)
  \/ \E t \in Tasks : Poll(t)
  \/ \E t \in Tasks : Drop(t)
  \/ Notify
  \/ \E t \in Tasks : SpuriousWake(t)

Spec == Init /\ [][Next]_vars

\* The executor polls a task that was woken, and the transport signals
\* readiness while a task is registered for it.
SpecLive ==
  /\ Init /\ [][Next]_vars
  /\ \A t \in Tasks : WF_vars(Poll(t))
  /\ WF_vars(Notify)

\* The same program with callers that open a File and stream on it, next to
\* a caller of Sftp::stat: the fns of Ops that list a directory are not called.
FileOpsOnly(t) == Ops(t) \ {"opendir", "file_readdir", "readdir"}

StartFile(t) == StartOf(t, FileOpsOnly(t))

PollFile(t) ==
  \/ PollStat(t)
  \/ PollOpenMode(t)
  \/ PollRead(t)
  \/ PollWrite(t)
  \/ PollFlush(t)
  \/ PollShutdown(t)

NextFile ==
  \/ \E t \in Tasks : StartFile(t)
  \/ \E t \in Tasks : PollFile(t)
  \/ \E t \in Tasks : Drop(t)
  \/ Notify
  \/ \E t \in Tasks : SpuriousWake(t)

SpecFileLive ==
  /\ Init /\ [][NextFile]_vars
  /\ \A t \in Tasks : WF_vars(PollFile(t))
  /\ WF_vars(Notify)

(* ------------------------- reading the histories ----------------------- *)

Last(h) == h[Len(h)]

\* r is the would-block failure of the underlying call
IsWB(r) == ~r.ok /\ r.code = EAGAIN

\* r is a failure other than would-block
IsTerminalErr(r) == ~r.ok /\ r.code # EAGAIN

\* the async fns that are one bridged call
SingleCall == {"stat", "opendir", "file_readdir", "open", "create", "open_mode"}

\* the async fns that go through ScopedFuture
Bridged == SingleCall \cup {"readdir"}

\* the poll fns of File that make a call of their own
Streaming == {"read", "write", "flush"}

\* every result but the latest of t's future was would-block: the closure
\* was not called again after a value or a terminal failure
NothingAfterTerminal(t) ==
  \A i \in 1..(Len(opHist[t]) - 1) : IsWB(opHist[t][i])

(* ------------------------------- claims -------------------------------- *)

\* C1: with a notifier present, when the closure of a bridged operation has
\* returned k would-blocks and then a value v, every poll called the closure
\* once, the first k polls returned Pending, poll k+1 returned Ready(Ok(v))
\* with that v, and the closure was called k+1 times and not again (a
\* single-call fn has returned Ok(v)).
C1_SuccessAfterWouldBlocks ==
  aio = "Some" =>
    \A t \in Tasks :
      op[t] \in Bridged =>
      /\ Len(pollHist[t]) = Len(opHist[t])
      /\ NothingAfterTerminal(t)
      /\ (Len(opHist[t]) > 0 /\ Last(opHist[t]).ok) =>
           /\ \A i \in 1..(Len(pollHist[t]) - 1) : pollHist[t][i] = Pending
           /\ Last(pollHist[t]) = ReadyOk(Last(opHist[t]).val)
           /\ op[t] \in SingleCall =>
                /\ pc[t] = "done"
                /\ result[t].st = "Ok"
                /\ op[t] = "stat" => result[t].val = Last(opHist[t]).val

\* C1 witness: a stat that got MaxWB would-blocks and then the value "v"
C1_Witness ==
  /\ aio = "Some"
  /\ op[1] = "stat" /\ pc[1] = "done"
  /\ Len(opHist[1]) = MaxWB + 1
  /\ Last(opHist[1]) = OpOk(<<"v">>)
  /\ result[1] = ReadyOk(<<"v">>)

\* C2: when the closure returns a failure that is not would-block, that poll
\* returns Ready(Err(SSH2)) with the same code, set_waker is not called in
\* it, and the closure is not called again (a single-call fn has returned
\* that error).
C2_TerminalErrorNotRetried ==
  \A t \in Tasks :
    (op[t] \in Bridged /\ Len(opHist[t]) > 0
       /\ IsTerminalErr(Last(opHist[t]))) =>
      /\ Last(pollHist[t]) = ReadyErrSSH2(Last(opHist[t]).code)
      /\ wakerRes[t] = "none"
      /\ wakerCalls[t] = IF aio = "Some" THEN Len(opHist[t]) - 1 ELSE 0
      /\ NothingAfterTerminal(t)
      /\ op[t] \in SingleCall =>
           pc[t] = "done" /\ result[t] = ReadyErrSSH2(Last(opHist[t]).code)

\* C2 witness: a stat failed with the protocol error after one would-block
C2_Witness ==
  /\ op[2] = "stat" /\ pc[2] = "done"
  /\ opHist[2] = << OpErr(EAGAIN), OpErr(SftpProtocol) >>
  /\ result[2] = ReadyErrSSH2(SftpProtocol)

\* C3: without a notifier, a poll whose closure returned would-block returns
\* Ready(Err): it does not return Pending.
C3_NoNotifierWouldBlockIsError ==
  aio = "None" =>
    \A t \in Tasks :
      (op[t] \in Bridged /\ Len(opHist[t]) > 0 /\ IsWB(Last(opHist[t]))) =>
        Last(pollHist[t]).st = "Err"

\* C4: no poll of a bridged operation returns Ready(Err(e)) with e the
\* would-block error of the closure, and no fn returns it.
C4_WouldBlockNeverSurfaces ==
  \A t \in Tasks :
    /\ \A i \in 1..Len(pollHist[t]) :
         pollHist[t][i].st = "Err" =>
           ~(pollHist[t][i].tag = "SSH2" /\ pollHist[t][i].code = EAGAIN)
    /\ result[t].st = "Err" =>
         ~(result[t].tag = "SSH2" /\ result[t].code = EAGAIN)

\* C4 witness: an operation that got would-block and later ended in an error
C4_Witness ==
  \E t \in Tasks :
    /\ op[t] \in Bridged
    /\ Len(opHist[t]) > 1 /\ IsWB(opHist[t][1])
    /\ pc[t] = "done" /\ result[t].st = "Err"

\* C5: when the closure returned would-block and set_waker failed, that poll
\* returns Ready(Err) with the notifier's error instead of Pending, and the
\* closure is not called again (the fn has returned that error).
C5_WakerFailureAborts ==
  \A t \in Tasks :
    wakerRes[t] = "failed" =>
      /\ IsWB(Last(opHist[t]))
      /\ Last(pollHist[t]) = ReadyErrIo
      /\ pc[t] = "done" /\ result[t] = ReadyErrIo
      /\ ~runnable[t]

\* C5 witness: set_waker failed on the second would-block of a stat
C5_Witness ==
  /\ op[1] = "stat" /\ wakerRes[1] = "failed"
  /\ opHist[1] = << OpErr(EAGAIN), OpErr(EAGAIN) >>

\* the result the closure's latest result calls for
OwnResult(t) ==
  IF Last(opHist[t]).ok THEN ReadyOk(Last(opHist[t]).val)
  ELSE ReadyErrSSH2(Last(opHist[t]).code)

\* C6: with one shared notifier present, every started operation of either
\* task completes (unless its own caller drops it), whatever would-blocks the
\* two receive and however their polls interleave, and a bridged call that
\* completes on a value or a terminal failure of its own closure returns
\* exactly that.
C6_ConcurrentBothComplete ==
  /\ \A t \in Tasks :
       (aio = "Some" /\ pc[t] \in Active) ~> (pc[t] \in {"done", "dropped"})
  /\ [](\A t \in Tasks :
          (pc[t] = "done" /\ op[t] = "stat" /\ ~IsWB(Last(opHist[t]))) =>
            result[t] = OwnResult(t))

\* C6 witness: both tasks are suspended and registered with the notifier at
\* once, task 1 in its second would-block and task 2 in its first
C6_Witness ==
  /\ aio = "Some"
  /\ registered = Tasks
  /\ op[1] = "stat" /\ op[2] = "stat"
  /\ pc[1] = "call" /\ pc[2] = "call"
  /\ ~runnable[1] /\ ~runnable[2]
  /\ Len(opHist[1]) = 2 /\ Len(opHist[2]) = 1

(* ----------------------------- Sftp::readdir --------------------------- *)

\* the listing has returned
ReaddirDone(t) == op[t] = "readdir" /\ pc[t] = "done"

\* the entries of log, each path being d joined with the name
Joined(log, d) ==
  [i \in 1..Len(log) |-> << Join(d, log[i][1]), log[i][2] >>]

\* the name is not exactly "." or ".."
NotExactlyDots(n) == n # <<".">> /\ n # <<".", ".">>

\* the name is "." or ".." followed by nothing but "/" and "." pieces, that
\* is, it names the same path as "." or ".."
NamesDotPath(n) ==
  LET pieces == Split(n) IN
    /\ pieces[1] \in { <<".">>, <<".", ".">> }
    /\ \A i \in 2..Len(pieces) : pieces[i] \in { << >>, <<".">> }

\* the entries of log, in order, but those named exactly "." or ".."
KeptExact(log, d) ==
  Joined(SelectSeq(log, LAMBDA e : NotExactlyDots(e[1])), d)

\* the entries of log, in order, but those naming the path "." or ".."
KeptByPath(log, d) ==
  Joined(SelectSeq(log, LAMBDA e : ~NamesDotPath(e[1])), d)

\* C7 as claimed: a listing that returns Ok returns every entry it read but
\* those named exactly "." or "..".
C7_SkipsExactlyDotAndDotDot ==
  \A t \in Tasks :
    (ReaddirDone(t) /\ result[t].st = "Ok") =>
      result[t].val = KeptExact(readLog[t], dirname[t])

\* C7 amended: a listing that returns Ok returns, in order, every entry it
\* read but those whose name is the same path as "." or ".." ("." and ".."
\* themselves, and also "./"); no entry named "." or ".." is returned.
C7_SkipsDotPaths ==
  \A t \in Tasks :
    (ReaddirDone(t) /\ result[t].st = "Ok") =>
      /\ result[t].val = KeptByPath(readLog[t], dirname[t])
      /\ Len(result[t].val) =
           Len(SelectSeq(readLog[t],
                 LAMBDA e : e[1] \notin { <<".">>, <<".", ".">>, <<".", "/">> }))

\* C7 witness: a listing read ".." and then "a" and returned only "d/a"
C7_Witness ==
  /\ ReaddirDone(1) /\ dirname[1] = <<"d">>
  /\ readLog[1] = << << <<".", ".">>, "s1" >>, << <<"a">>, "s1" >> >>
  /\ result[1] = ReadyOk(<< << <<"d", "/", "a">>, "s1" >> >>)

\* C8: when a single-entry read of a listing reports NoMoreEntries, the
\* listing returns Ok with the entries accumulated so far and reads no more;
\* it returns Ok with the empty sequence when nothing, or only "." and "..",
\* was read.
C8_NoMoreEntriesEndsListing ==
  \A t \in Tasks :
    (op[t] = "readdir" /\ lastAt[t] = "read"
       /\ Last(opHist[t]) = OpErr(NoMoreEntries)) =>
      /\ pc[t] = "done" /\ ~runnable[t]
      /\ result[t] = ReadyOk(ret[t])
      /\ ret[t] = KeptByPath(readLog[t], dirname[t])
      /\ (\A i \in 1..Len(readLog[t]) :
             readLog[t][i][1] \in { <<".">>, <<".", ".">> }) =>
           result[t] = ReadyOk(<< >>)

\* C8 witness: a listing that read "." and ".." and then NoMoreEntries
\* returned the empty sequence
C8_Witness ==
  /\ ReaddirDone(1) /\ lastAt[1] = "read"
  /\ Last(opHist[1]) = OpErr(NoMoreEntries)
  /\ Len(readLog[1]) = 2
  /\ readLog[1][1][1] = <<".">> /\ readLog[1][2][1] = <<".", ".">>
  /\ result[1] = ReadyOk(<< >>)

\* C9: a listing whose opendir fails with e, or one of whose single-entry
\* reads fails with an e that is neither would-block nor NoMoreEntries,
\* returns Err(e) and no entries, whatever it had accumulated, and reads no
\* more.
C9_ErrorAbortsListing ==
  \A t \in Tasks :
    (op[t] = "readdir" /\ Len(opHist[t]) > 0
       /\ IsTerminalErr(Last(opHist[t]))
       /\ (lastAt[t] = "open" \/ Last(opHist[t]).code # NoMoreEntries)) =>
      /\ pc[t] = "done" /\ ~runnable[t]
      /\ result[t] = ReadyErrSSH2(Last(opHist[t]).code)

\* C9 witness: a listing that had accumulated an entry failed on a read
C9_Witness ==
  /\ ReaddirDone(1) /\ lastAt[1] = "read"
  /\ Len(ret[1]) > 0
  /\ Last(opHist[1]) = OpErr(SftpProtocol)
  /\ result[1] = ReadyErrSSH2(SftpProtocol)

\* C10: File::readdir returns the NoMoreEntries failure of its call to its
\* caller as Err with that code, and so do stat, opendir and the opendir of
\* Sftp::readdir: only the read loop of Sftp::readdir takes that code for
\* the end of the listing.
C10_NoMoreEntriesSurfaced ==
  \A t \in Tasks :
    (op[t] \in Bridged /\ Len(opHist[t]) > 0
       /\ Last(opHist[t]) = OpErr(NoMoreEntries)) =>
      /\ Last(pollHist[t]) = ReadyErrSSH2(NoMoreEntries)
      /\ (op[t] \in SingleCall \/ lastAt[t] = "open") =>
           (pc[t] = "done" /\ result[t] = ReadyErrSSH2(NoMoreEntries))
      /\ (result[t].st = "Ok" /\ pc[t] = "done") =>
           (op[t] = "readdir" /\ lastAt[t] = "read")

\* C10 witness: File::readdir on the caller's handle got NoMoreEntries after
\* a would-block and returned it as an error
C10_Witness ==
  /\ op[1] = "file_readdir" /\ pc[1] = "done"
  /\ opHist[1] = << OpErr(EAGAIN), OpErr(NoMoreEntries) >>
  /\ result[1] = ReadyErrSSH2(NoMoreEntries)

\* C11 as stated: a poll_read whose read returned would-block returns
\* Pending, never Ready(Err) (and never Ready(Ok(0))).
C11_ReadWouldBlockIsPending ==
  \A t \in Tasks :
    (op[t] = "read" /\ Len(opHist[t]) > 0 /\ IsWB(Last(opHist[t]))) =>
      Last(pollHist[t]) = Pending

\* C11, amended: a poll_read whose read returned Ok(0) returns Ready(Ok(0))
\* and the read has ended without an error; Ready(Ok(0)) is returned for no
\* other result; a poll_read whose read returned would-block returns Pending,
\* unless registering the wakeup failed, and then it returns Ready(Err) with
\* the notifier's error; and a read that is suspended with a registration is
\* polled again after the readiness signal and calls read again.
C11_ReadEofAndWouldBlock ==
  /\ [](\A t \in Tasks :
          (op[t] = "read" /\ Len(opHist[t]) > 0) =>
            /\ Last(opHist[t]) = OpOk(<<0>>) =>
                 /\ Last(pollHist[t]) = ReadyOk(<<0>>)
                 /\ pc[t] = "done" /\ result[t] = ReadyOk(<<0>>)
            /\ Last(pollHist[t]) = ReadyOk(<<0>>) => Last(opHist[t]) = OpOk(<<0>>)
            /\ IsWB(Last(opHist[t])) =>
                 Last(pollHist[t]) =
                   IF wakerRes[t] = "failed" THEN ReadyErrIo ELSE Pending)
  /\ \A t \in Tasks : \A k \in 1..MaxWB :
       (/\ op[t] = "read" /\ pc[t] = "call"
        /\ Len(opHist[t]) = k /\ t \in registered)
         ~> (op[t] = "read" /\ Len(opHist[t]) = k + 1)

\* C11 witness: a read on a File with a notifier was suspended on a
\* would-block, was polled again and then found the end of the stream
C11_Witness ==
  /\ op[1] = "read" /\ pc[1] = "done" /\ file[1].aio = "Some"
  /\ opHist[1] = << OpErr(EAGAIN), OpOk(<<0>>) >>
  /\ pollHist[1] = << Pending, ReadyOk(<<0>>) >>
  /\ result[1] = ReadyOk(<<0>>)

\* C12: every poll_shutdown returns Ready(Ok(())), whatever was done on the
\* File before and whatever its notifier is: the poll makes no protocol call,
\* calls set_waker not at all and leaves the notifier's registrations as
\* they were.
C12_ShutdownIsImmediate ==
  /\ [](\A t \in Tasks :
          (op[t] = "shutdown" /\ Len(pollHist[t]) > 0) =>
            /\ pollHist[t] = << ReadyOk(NoVal) >>
            /\ pc[t] = "done" /\ result[t] = ReadyOk(NoVal)
            /\ opHist[t] = << >>
            /\ wakerCalls[t] = 0 /\ wakerRes[t] = "none")
  /\ [][\A t \in Tasks :
          (op'[t] = "shutdown" /\ pollHist'[t] # pollHist[t]) =>
            registered' = registered]_vars

\* C12 witness: poll_shutdown has returned on a File that holds a notifier,
\* while the other task is suspended with a registration
C12_Witness ==
  /\ op[1] = "shutdown" /\ pc[1] = "done" /\ result[1] = ReadyOk(NoVal)
  /\ file[1].open /\ file[1].aio = "Some"
  /\ pc[2] = "call" /\ registered = {2}

\* C13: whenever poll_read, poll_write or poll_flush returns Pending, set_waker
\* was called and succeeded in that same poll, whatever the notifier of the
\* File is, a File without a notifier included.
C13_PendingImpliesRegistered ==
  \A t \in Tasks :
    (op[t] \in Streaming /\ Len(pollHist[t]) > 0
       /\ Last(pollHist[t]) = Pending) =>
      wakerRes[t] = "ok"

\* the number of would-block results in the history h
WouldBlocks(h) == Cardinality({ i \in 1..Len(h) : IsWB(h[i]) })

\* C14: with a notifier present, a bridged or a streaming operation calls
\* set_waker once in every poll whose call returned would-block (whether the
\* poll came from the notifier or from a spurious wakeup) and in no poll
\* whose call returned a value or another failure: after n would-block polls
\* set_waker was called n times; and a poll that returned Pending registered
\* in that same poll, so that the task is among the notifier's registrants
\* right after it.
C14_RegistersOnEveryWouldBlock ==
  /\ [](aio = "Some" =>
          \A t \in Tasks :
            op[t] \in Bridged \cup Streaming =>
              /\ wakerCalls[t] = WouldBlocks(opHist[t])
              /\ wakerRes[t] # "none" <=>
                   (Len(opHist[t]) > 0 /\ IsWB(Last(opHist[t])))
              /\ (Len(pollHist[t]) > 0 /\ Last(pollHist[t]) = Pending) =>
                   wakerRes[t] = "ok")
  /\ [][aio = "Some" =>
          \A t \in Tasks :
            (/\ op'[t] \in Bridged \cup Streaming
             /\ pollHist'[t] # pollHist[t] /\ Len(pollHist'[t]) > 0
             /\ Last(pollHist'[t]) = Pending) => t \in registered']_vars

\* C14 witness: a write on a File with a notifier got MaxWB would-blocks,
\* registered MaxWB times, and completed on a poll that did not register
C14_Witness ==
  /\ aio = "Some" /\ op[1] = "write" /\ pc[1] = "done"
  /\ Len(opHist[1]) = MaxWB + 1 /\ WouldBlocks(opHist[1]) = MaxWB
  /\ wakerCalls[1] = MaxWB /\ wakerRes[1] = "none"

\* C15 as stated: a poll of a bridged operation, of poll_read, of poll_write
\* or of poll_flush returns Pending if and only if the call made in that poll
\* returned would-block.
C15_PendingIffWouldBlock ==
  \A t \in Tasks :
    (op[t] \in Bridged \cup Streaming /\ Len(opHist[t]) > 0) =>
      (Last(pollHist[t]) = Pending <=> IsWB(Last(opHist[t])))

\* C15, amended: such a poll returns Pending only if its call returned
\* would-block, and a task is suspended only after a poll that returned
\* Pending; a poll whose call returned would-block returns Pending unless
\* set_waker failed in it, and then it returns Ready(Err) with the notifier's
\* error; a poll whose call returned a value or another failure returns Ready.
C15_PendingOnlyOnWouldBlock ==
  \A t \in Tasks :
    (op[t] \in Bridged \cup Streaming) =>
      /\ (pc[t] \in Active /\ ~runnable[t]) =>
           (Len(pollHist[t]) > 0 /\ Last(pollHist[t]) = Pending)
      /\ Len(opHist[t]) > 0 =>
           /\ Len(pollHist[t]) = Len(opHist[t])
           /\ Last(pollHist[t]) = Pending => IsWB(Last(opHist[t]))
           /\ IsWB(Last(opHist[t])) =>
                Last(pollHist[t]) =
                  IF wakerRes[t] = "failed" THEN ReadyErrIo ELSE Pending
           /\ ~IsWB(Last(opHist[t])) => Last(pollHist[t]).st \in {"Ok", "Err"}

\* C15 witness: a write returned Pending on a would-block and then
\* Ready(Err) on a would-block in whose poll set_waker failed
C15_Witness ==
  /\ op[1] = "write" /\ pc[1] = "done" /\ wakerRes[1] = "failed"
  /\ opHist[1] = << OpErr(EAGAIN), OpErr(EAGAIN) >>
  /\ pollHist[1] = << Pending, ReadyErrIo >>

\* C16 as stated: a poll_write or poll_flush whose call returned would-block
\* returns Pending.
C16_WriteFlushWouldBlockIsPending ==
  \A t \in Tasks :
    (op[t] \in {"write", "flush"} /\ Len(opHist[t]) > 0
       /\ IsWB(Last(opHist[t]))) =>
      Last(pollHist[t]).st = "Pending"

\* C16, amended: every poll of poll_write or poll_flush makes one call of
\* write (on the caller's buffer: it accepts no more bytes than that buffer
\* has) or of flush, and only the first call or a call after a would-block;
\* a success returns Ready(Ok) with the bytes accepted, or unit for flush;
\* a failure other than would-block returns Ready(Err) with that error; a
\* would-block returns Pending and leaves the operation to call again on its
\* next poll, unless set_waker failed, and then the poll returns Ready(Err)
\* with the notifier's error.
C16_WriteFlushPoll ==
  \A t \in Tasks :
    (op[t] \in {"write", "flush"} /\ Len(opHist[t]) > 0) =>
      LET r == Last(opHist[t])
          p == Last(pollHist[t])
      IN /\ Len(pollHist[t]) = Len(opHist[t])
         /\ NothingAfterTerminal(t)
         /\ r.ok =>
              /\ p = ReadyOk(r.val) /\ pc[t] = "done" /\ result[t] = p
              /\ op[t] = "write" => r.val[1] \in 0..Len(buf[t])
              /\ op[t] = "flush" => r.val = NoVal
         /\ IsTerminalErr(r) =>
              p = ReadyErrIoOf(r.code) /\ pc[t] = "done" /\ result[t] = p
         /\ (IsWB(r) /\ wakerRes[t] # "failed") =>
              p = Pending /\ pc[t] = "call"
         /\ (IsWB(r) /\ wakerRes[t] = "failed") =>
              p = ReadyErrIo /\ pc[t] = "done" /\ result[t] = p

\* C16 witness: a write of a one-byte buffer was suspended on a would-block,
\* called write again on its next poll and had its byte accepted
C16_Witness ==
  /\ op[1] = "write" /\ pc[1] = "done" /\ buf[1] = <<"x">>
  /\ opHist[1] = << OpErr(EAGAIN), OpOk(<<1>>) >>
  /\ pollHist[1] = << Pending, ReadyOk(<<1>>) >>
  /\ result[1] = ReadyOk(<<1>>)

\* C17: when the future of a bridged operation is dropped while it is
\* suspended, its closure is never called again; the drop changes nothing of
\* the other task or of the notifier; and, with a notifier present, the other
\* task's operation, suspended at the drop or started after it, still
\* completes, a bridged call with the result of its own closure.
C17_DropLeavesOthersRunning ==
  /\ [][\A t \in Tasks :
          /\ pc[t] = "dropped" => (pc'[t] = "dropped" /\ opHist'[t] = opHist[t])
          /\ (pc[t] # "dropped" /\ pc'[t] = "dropped") =>
               /\ Len(pollHist[t]) > 0 /\ Last(pollHist[t]) = Pending
               /\ registered' = registered
               /\ \A u \in Tasks \ {t} :
                    /\ pc'[u] = pc[u] /\ runnable'[u] = runnable[u]
                    /\ opHist'[u] = opHist[u] /\ result'[u] = result[u]
                    /\ file'[u] = file[u]]_vars
  /\ \A t \in Droppable : \A u \in Tasks \ {t} :
       (aio = "Some" /\ pc[t] = "dropped" /\ pc[u] \in Active)
         ~> (pc[u] = "done")
  /\ [](\A t \in Droppable : \A u \in Tasks \ {t} :
          (/\ pc[t] = "dropped" /\ pc[u] = "done"
           /\ op[u] = "stat" /\ ~IsWB(Last(opHist[u]))) =>
            result[u] = OwnResult(u))

\* C17 witness: the stat of task 2 was dropped after a would-block, and the
\* stat of task 1 completed with its value after a would-block of its own
C17_Witness ==
  /\ aio = "Some"
  /\ op[2] = "stat" /\ pc[2] = "dropped" /\ opHist[2] = << OpErr(EAGAIN) >>
  /\ op[1] = "stat" /\ pc[1] = "done"
  /\ opHist[1] = << OpErr(EAGAIN), OpOk(<<"w">>) >>
  /\ result[1] = ReadyOk(<<"w">>)

\* C18: every File that open_mode, open, create or opendir returned, and the
\* File that Sftp::readdir opens for itself, holds the notifier of the Sftp
\* that made it, a present one and an absent one alike; set_waker is called,
\* and a task is registered, only with that notifier.
C18_FilesShareTheNotifier ==
  \A t \in Tasks :
    /\ file[t].open => file[t].aio = aio
    /\ dir[t].open => dir[t].aio = aio
    /\ wakerRes[t] # "none" => aio = "Some"
    /\ t \in registered => aio = "Some"

\* C18 witness: a read on a File the Sftp returned is suspended and
\* registered with the notifier of the Sftp
C18_Witness ==
  /\ aio = "Some" /\ file[1].open /\ file[1].aio = "Some"
  /\ op[1] = "read" /\ pc[1] = "call" /\ wakerRes[1] = "ok"
  /\ 1 \in registered

\* the open_mode call each convenience form is said to stand for
StandsFor(o) ==
  IF o = "open" THEN [flags |-> {"READ"}, mode |-> 420, type |-> "File"]
  ELSE IF o = "create"
  THEN [flags |-> {"WRITE", "TRUNCATE"}, mode |-> 420, type |-> "File"]
  ELSE [flags |-> {"READ"}, mode |-> 0, type |-> "Dir"]

\* what open_mode has returned once the calls of inner.open_mode have had
\* the outcomes h, the last poll's set_waker succeeding iff w
OpenModeReturns(h, a, w) == ScopedFuturePoll(Last(h), a, w).out

\* C19: open, create and opendir hand to inner.open_mode exactly the
\* arguments of open_mode(p, READ, 0o644, File), of
\* open_mode(p, WRITE|TRUNCATE, 0o644, File) (no READ) and of
\* open_mode(p, READ, 0, Dir), which a caller of open_mode can give as well,
\* and for every sequence of outcomes of that call each of the four fns is
\* suspended, or has returned the error, or has returned the File made of
\* the call's value, as open_mode is on that sequence.
C19_ConvenienceFormsAreOpenMode ==
  \A t \in Tasks :
    /\ op[t] \in {"open", "create", "opendir"} =>
         /\ openArgs[t] = StandsFor(op[t])
         /\ openArgs[t] \in OpenModeCalls
         /\ op[t] = "create" => "READ" \notin openArgs[t].flags
    /\ (op[t] \in {"open", "create", "opendir", "open_mode"}
          /\ Len(opHist[t]) > 0) =>
         LET p == OpenModeReturns(opHist[t], aio, wakerRes[t] # "failed")
         IN  /\ Last(pollHist[t]) = p
             /\ p = Pending => pc[t] = "call"
             /\ p # Pending => (pc[t] = "done" /\ result[t] = p)
             /\ p.st = "Ok" => file[t] = FileNew(p.val, aio)
             /\ p.st = "Err" => ~file[t].open

\* C19 witness: create got a would-block and then its handle, having asked
\* for WRITE|TRUNCATE, 0o644, File
C19_Witness ==
  /\ op[1] = "create" /\ pc[1] = "done"
  /\ opHist[1] = << OpErr(EAGAIN), OpOk(<<"h">>) >>
  /\ openArgs[1] =
       [flags |-> {"WRITE", "TRUNCATE"}, mode |-> 420, type |-> "File"]
  /\ file[1] = FileNew(<<"h">>, aio)

\* a poll of t's listing has just been made at `dir.readdir().await`
ReadPolled(t) ==
  /\ op[t] = "readdir" /\ pc[t] = "read" /\ runnable[t]
  /\ lastAt'[t] = "read" /\ Len(opHist'[t]) > 0
  /\ << opHist'[t], readLog'[t], pc'[t], runnable'[t] >>
       # << opHist[t], readLog[t], pc[t], runnable[t] >>

====
